---- MODULE Spec2Model ----
(***************************************************************************)
(* Runtime type generation of wrangler                                     *)
(* (packages/wrangler/src/type-generation/runtime/index.ts).               *)
(*                                                                         *)
(* generateRuntimeTypes validates the configuration, resolves the output   *)
(* file, prepares its directory and calls generate; generate reads the     *)
(* bundled worker script, creates a Miniflare instance, dispatches one     *)
(* request whose path encodes the compatibility date and flags, reads the  *)
(* response text, and then writes the file and disposes the instance under *)
(* one Promise.all.                                                        *)
(*                                                                         *)
(* An async function runs synchronously from one await to the next, so     *)
(* every action below is one such segment.  The collaborators that are not *)
(* part of this file (ensureDirectoryExists, readFileSync, Miniflare,      *)
(* writeFile) either return or throw: both outcomes are actions.           *)
(*                                                                         *)
(* An optional value (a parameter that may be undefined) is a sequence of  *)
(* length 0 (undefined) or 1 (the value).  Request paths are strings.  A   *)
(* file path is a sequence of tokens, each the separator "/" or a segment  *)
(* name; file content is a sequence of chunks.                             *)
(***************************************************************************)
EXTENDS Integers, Sequences, FiniteSets, TLC

None == <<>>
Some(v) == <<v>>
Val(o) == o[1]

(***************************************************************************)
(* Bounds and input domains.                                               *)
(***************************************************************************)
\* the longest response text, in chunks
MaxChunks == 2

Procs == {1, 2}

Dates == {None, Some(""), Some("2024-01-01"), Some("2023-07-24")}

FlagLists ==
  {None, Some(<<>>), Some(<<"experimental">>),
   Some(<<"nodejs_compat", "rtti_api">>), Some(<<"rtti_api", "nodejs_compat">>),
   Some(<<"a+b", "">>)}

OutFiles ==
  {None, Some(<<"/", "tmp", "/", "out.d.ts">>), Some(<<"out.d.ts">>)}

RootPaths ==
  {None, Some(<<"/", "proj", "/", "wrangler.toml">>), Some(<<"wrangler.toml">>),
   Some(<<"/", "proj", "/", "sub", "/", "..", "/", "wrangler.toml">>),
   Some(<<"/", "proj", "/">>)}

Configs == [date : Dates, flags : FlagLists, outFile : OutFiles, rootPath : RootPaths]

\* the configurations of the repeated call
RepeatConfigs ==
  [date : {None, Some("2024-01-01")},
   flags : {None, Some(<<"nodejs_compat", "rtti_api">>)},
   outFile : {None, Some(<<"/", "tmp", "/", "out.d.ts">>)},
   rootPath : {None, Some(<<"/", "proj", "/", "wrangler.toml">>)}]

\* the configurations of the call whose collaborators all answer
FairConfigs ==
  [date : {None, Some("2023-07-24")},
   flags : {None},
   outFile : {None, Some(<<"/", "tmp", "/", "out.d.ts">>)},
   rootPath : {None, Some(<<"/", "proj", "/", "wrangler.toml">>)}]

\* the configurations of two concurrent calls
ConcConfigs ==
  [date : {Some("2023-07-24")},
   flags : {Some(<<"experimental">>)},
   outFile : {None, Some(<<"/", "tmp", "/", "out.d.ts">>)},
   rootPath : {Some(<<"/", "proj", "/", "wrangler.toml">>)}]

\* the compatibilityDate arguments of a direct call of generate
DirectDates == {"", "2024-01-01"}

\* process.cwd()
Cwd == <<"/", "cwd">>

Chunks == {"A", "B"}
\* the response texts: the empty text, a text of every length, and two
\* different texts of the greatest length
Responses ==
  {<<>>} \cup {[i \in 1..n |-> "A"] : n \in 1..MaxChunks}
         \cup {[i \in 1..MaxChunks |-> c] : c \in Chunks}

Absent == <<"ENOENT">>
Hole == "\\0"
PriorContents == {Absent, <<>>, [i \in 1..(MaxChunks + 1) |-> "P"]}

(***************************************************************************)
(* node:path (posix)                                                       *)
(***************************************************************************)
IsAbsolute(path) == Len(path) > 0 /\ path[1] = "/"

\* the positions of the separators that end the directory part: a "/" that
\* is not the first token and has a segment name somewhere after it
DirEnds(path) ==
  {j \in 2..Len(path) :
     path[j] = "/" /\ \E k \in (j + 1)..Len(path) : path[k] # "/"}

SetMax(S) == CHOOSE x \in S : \A y \in S : y <= x

dirname(path) ==
  IF Len(path) = 0 THEN <<".">>
  ELSE IF DirEnds(path) = {} THEN (IF IsAbsolute(path) THEN <<"/">> ELSE <<".">>)
  ELSE IF IsAbsolute(path) /\ SetMax(DirEnds(path)) = 2 THEN <<"/", "/">>
  ELSE SubSeq(path, 1, SetMax(DirEnds(path)) - 1)

\* the segment names of a path, separators dropped
RECURSIVE Segments(_)
Segments(path) ==
  IF path = <<>> THEN <<>>
  ELSE IF Head(path) = "/" THEN Segments(Tail(path))
  ELSE <<Head(path)>> \o Segments(Tail(path))

Front(s) == SubSeq(s, 1, Len(s) - 1)

\* normalizeString for an absolute path: "." is dropped, ".." removes the
\* segment before it (and is dropped at the root)
RECURSIVE NormalizeSegs(_, _)
NormalizeSegs(done, rest) ==
  IF rest = <<>> THEN done
  ELSE IF Head(rest) = "." THEN NormalizeSegs(done, Tail(rest))
  ELSE IF Head(rest) = ".."
    THEN NormalizeSegs(IF done = <<>> THEN done ELSE Front(done), Tail(rest))
  ELSE NormalizeSegs(Append(done, Head(rest)), Tail(rest))

RECURSIVE FromSegs(_)
FromSegs(segs) ==
  IF segs = <<>> THEN <<>>
  ELSE <<"/", Head(segs)>> \o FromSegs(Tail(segs))

\* resolve(from, to): the arguments are taken from the right until one is
\* absolute, process.cwd() comes last; empty arguments are skipped
resolve(from, to) ==
  LET joined ==
        IF IsAbsolute(to) THEN to
        ELSE IF IsAbsolute(from) THEN from \o <<"/">> \o to
        ELSE Cwd \o <<"/">> \o from \o <<"/">> \o to
      segs == NormalizeSegs(<<>>, Segments(joined))
  IN IF segs = <<>> THEN <<"/">> ELSE FromSegs(segs)

DEFAULT_OUTFILE_RELATIVE_PATH ==
  <<".", "/", ".wrangler", "/", "types", "/", "runtime.d.ts">>

(***************************************************************************)
(* Pure parts of generateRuntimeTypes and generate                         *)
(***************************************************************************)
\* a variant of the check that tests for undefined only
FalsyUndefinedOnly(date) == date = None

\* !compatibility_date: undefined and the empty string are both falsy
Falsy(date) == date = None \/ Val(date) = ""

\* a variant without the check of the output location
NoOutputLocationUnchecked(outFile, rootPath) == FALSE

\* outFile === undefined && rootPath === undefined
NoOutputLocation(outFile, rootPath) == outFile = None /\ rootPath = None

\* dirname(rootPath as string) throws ERR_INVALID_ARG_TYPE on undefined
PathArgThrows(outFile, rootPath) == outFile = None /\ rootPath = None

\* a variant that resolves against rootPath itself, not against its directory
outFileAbsoluteNoDirname(outFile, rootPath) ==
  IF outFile # None THEN Val(outFile)
  ELSE resolve(Val(rootPath), DEFAULT_OUTFILE_RELATIVE_PATH)

\* outFile ?? resolve(dirname(rootPath), DEFAULT_OUTFILE_RELATIVE_PATH)
outFileAbsolute(outFile, rootPath) ==
  IF outFile # None THEN Val(outFile)
  ELSE resolve(dirname(Val(rootPath)), DEFAULT_OUTFILE_RELATIVE_PATH)

\* the default value of the parameter: compatibilityFlags = []
compatibilityFlags(flags) == IF flags = None THEN <<>> ELSE Val(flags)

\* Array.prototype.join
RECURSIVE join(_, _)
join(arr, sep) ==
  IF arr = <<>> THEN ""
  ELSE IF Len(arr) = 1 THEN arr[1]
  ELSE arr[1] \o sep \o join(Tail(arr), sep)

\* a variant that writes the delimiter also when there is no flag
flagsStringAlways(flags) == "+" \o join(flags, "+")

flagsString(flags) ==
  IF Len(flags) # 0 THEN "+" \o join(flags, "+") ELSE ""

requestPath(date, flags) == "http://dummy.com/" \o date \o flagsString(flags)

\* the options of new Miniflare(...)
MiniflareOptions ==
  [compatibilityDate |-> "2024-01-01",
   compatibilityFlags |-> <<"nodejs_compat", "rtti_api">>,
   modules |-> TRUE,
   script |-> "workerd/bazel-bin/types/dist/index.mjs"]

\* error messages thrown by generateRuntimeTypes itself
DateError == "Config must have a compatability date."
LocationError == "A rootPath must be specified if no outFile is provided"

(***************************************************************************)
(* The file system                                                         *)
(***************************************************************************)
\* the file a path names: relative paths are taken from process.cwd()
FileOf(path) == resolve(<<>>, path)

Files ==
  {FileOf(outFileAbsolute(o, r)) :
     <<o, r>> \in {x \in OutFiles \X RootPaths : ~ PathArgThrows(x[1], x[2])}}

\* a variant that opens the file for appending
writeFileFlagAppend == "a"

\* the flag writeFile opens the file with: the options argument "utf8" names
\* the encoding only, so the flag is the default
writeFileFlag == "w"

\* the content of a file once it is opened: "w" creates or truncates it, "a"
\* creates it or keeps what it holds
OpenForWrite(file) ==
  IF writeFileFlag = "w" \/ file = Absent THEN <<>> ELSE file

\* a write of one chunk by a descriptor that has written pos chunks: at its
\* own offset (a gap is filled with holes), or at the end of the file when
\* the file is open for appending
WriteAt(file, pos, chunk) ==
  IF writeFileFlag = "a" THEN Append(file, chunk)
  ELSE [i \in 1..(IF Len(file) > pos + 1 THEN Len(file) ELSE pos + 1) |->
          IF i = pos + 1 THEN chunk
          ELSE IF i <= Len(file) THEN file[i]
          ELSE Hole]

(***************************************************************************)
(* State                                                                   *)
(***************************************************************************)
VARIABLES
  pc,          \* where each invocation stands
  entry,       \* the function the caller called ("" before the call)
  dateChecks,  \* the number of evaluations of the date precondition
  cfg,         \* the arguments of the call
  err,         \* the error the invocation threw to its caller ("" for none)
  outfilePath, \* outFileAbsolute, once computed
  mkdirs,      \* the arguments of the calls of ensureDirectoryExists
  reads,       \* the number of reads of the bundled worker script
  boots,       \* the options of the calls of new Miniflare
  mf,          \* the Miniflare instance
  requests,    \* the paths given to mf.dispatchFetch
  disposes,    \* the number of calls of mf.dispose
  content,     \* the response text, once read
  wr,          \* the writeFile operation
  fs,          \* the content of each file
  before,      \* the content of the output file when the invocation began
  after        \* the content of the output file when the invocation returned

vars ==
  <<pc, entry, dateChecks, cfg, err, outfilePath, mkdirs, reads, boots, mf, requests, disposes,
    content, wr, fs, before, after>>

NoConfig == [date |-> None, flags |-> None, outFile |-> None, rootPath |-> None]
NoWrite == [st |-> "none", path |-> <<>>, data |-> <<>>, pos |-> 0]

Init ==
  /\ pc = [p \in Procs |-> "idle"]
  /\ entry = [p \in Procs |-> ""]
  /\ dateChecks = [p \in Procs |-> 0]
  /\ cfg = [p \in Procs |-> NoConfig]
  /\ err = [p \in Procs |-> ""]
  /\ outfilePath = [p \in Procs |-> None]
  /\ mkdirs = [p \in Procs |-> <<>>]
  /\ reads = [p \in Procs |-> 0]
  /\ boots = [p \in Procs |-> <<>>]
  /\ mf = [p \in Procs |-> "none"]
  /\ requests = [p \in Procs |-> <<>>]
  /\ disposes = [p \in Procs |-> 0]
  /\ content = [p \in Procs |-> None]
  /\ wr = [p \in Procs |-> NoWrite]
  /\ \E c \in PriorContents : fs = [f \in Files |-> c]
  /\ before = [p \in Procs |-> None]
  /\ after = [p \in Procs |-> None]

\* the invocation has returned to its caller
Returned(p) == pc[p] \in {"done", "failed"}

\* nothing the invocation started is still running
Settled(p) ==
  /\ pc[p] \in {"idle", "done", "failed"}
  /\ wr[p].st \notin {"pending", "open"}
  /\ mf[p] # "disposing"

\* the file the invocation writes
OutFile(p) == FileOf(Val(outfilePath[p]))

(***************************************************************************)
(* generateRuntimeTypes                                                    *)
(***************************************************************************)
\* the synchronous part of generateRuntimeTypes, up to the call of
\* ensureDirectoryExists
Enter(p, c) ==
  /\ entry' = [entry EXCEPT ![p] = "generateRuntimeTypes"]
  /\ dateChecks' = [dateChecks EXCEPT ![p] = @ + 1]
  /\ cfg' = [cfg EXCEPT ![p] = c]
  /\ IF Falsy(c.date)
       THEN /\ pc' = [pc EXCEPT ![p] = "failed"]
            /\ err' = [err EXCEPT ![p] = DateError]
            /\ UNCHANGED <<outfilePath, mkdirs, before>>
     ELSE IF NoOutputLocation(c.outFile, c.rootPath)
       THEN /\ pc' = [pc EXCEPT ![p] = "failed"]
            /\ err' = [err EXCEPT ![p] = LocationError]
            /\ UNCHANGED <<outfilePath, mkdirs, before>>
     ELSE IF PathArgThrows(c.outFile, c.rootPath)
       THEN /\ pc' = [pc EXCEPT ![p] = "failed"]
            /\ err' = [err EXCEPT ![p] = "ERR_INVALID_ARG_TYPE"]
            /\ UNCHANGED <<outfilePath, mkdirs, before>>
     ELSE LET path == outFileAbsolute(c.outFile, c.rootPath) IN
            /\ outfilePath' = [outfilePath EXCEPT ![p] = Some(path)]
            /\ mkdirs' = [mkdirs EXCEPT ![p] = Append(@, path)]
            /\ before' = [before EXCEPT ![p] = Some(fs[FileOf(path)])]
            /\ pc' = [pc EXCEPT ![p] = "mkdir"]
            /\ UNCHANGED err
  /\ UNCHANGED <<reads, boots, mf, requests, disposes, content, wr, fs, after>>

\* a call of generateRuntimeTypes, made while no other invocation is running
Call(p) ==
  /\ pc[p] = "idle"
  /\ \A q \in Procs : pc[q] = "idle"
  /\ \E c \in Configs : Enter(p, c)

Throw(p, e) ==
  /\ pc' = [pc EXCEPT ![p] = "failed"]
  /\ err' = [err EXCEPT ![p] = e]
  /\ after' = [after EXCEPT ![p] = Some(fs[OutFile(p)])]

\* a variant that does not await ensureDirectoryExists: generate has begun to
\* boot when the rejection arrives
EnsureDirectoryFailBootStarted(p) ==
  /\ pc[p] = "mkdir"
  /\ reads' = [reads EXCEPT ![p] = @ + 1]
  /\ boots' = [boots EXCEPT ![p] = Append(@, MiniflareOptions)]
  /\ Throw(p, "ensureDirectoryExists")
  /\ UNCHANGED <<entry, dateChecks, cfg, outfilePath, mkdirs, mf, requests,
                 disposes, content, wr, fs, before>>

\* await ensureDirectoryExists(outFileAbsolute) rejects
EnsureDirectoryFail(p) ==
  /\ pc[p] = "mkdir"
  /\ Throw(p, "ensureDirectoryExists")
  /\ UNCHANGED <<entry, dateChecks, cfg, outfilePath, mkdirs, reads, boots, mf, requests, disposes,
                 content, wr, fs, before>>

\* await ensureDirectoryExists(outFileAbsolute) returns; generate is called
EnsureDirectoryOk(p) ==
  /\ pc[p] = "mkdir"
  /\ pc' = [pc EXCEPT ![p] = "generate"]
  /\ UNCHANGED <<entry, dateChecks, cfg, err, outfilePath, mkdirs, reads, boots, mf, requests,
                 disposes, content, wr, fs, before, after>>

(***************************************************************************)
(* generate                                                                *)
(***************************************************************************)
\* readFileSync of the worker script throws
ReadScriptFail(p) ==
  /\ pc[p] = "generate"
  /\ reads' = [reads EXCEPT ![p] = @ + 1]
  /\ Throw(p, "readFileSync")
  /\ UNCHANGED <<entry, dateChecks, cfg, outfilePath, mkdirs, boots, mf, requests, disposes,
                 content, wr, fs, before>>

\* a variant that has opened the output file before it creates the instance
BootFailFileOpened(p) ==
  /\ pc[p] = "generate"
  /\ reads' = [reads EXCEPT ![p] = @ + 1]
  /\ boots' = [boots EXCEPT ![p] = Append(@, MiniflareOptions)]
  /\ fs' = [fs EXCEPT ![OutFile(p)] = <<>>]
  /\ pc' = [pc EXCEPT ![p] = "failed"]
  /\ err' = [err EXCEPT ![p] = "Miniflare"]
  /\ after' = [after EXCEPT ![p] = Some(fs'[OutFile(p)])]
  /\ UNCHANGED <<entry, dateChecks, cfg, outfilePath, mkdirs, mf, requests, disposes,
                 content, wr, before>>

\* the script is read, new Miniflare throws
BootFail(p) ==
  /\ pc[p] = "generate"
  /\ reads' = [reads EXCEPT ![p] = @ + 1]
  /\ boots' = [boots EXCEPT ![p] = Append(@, MiniflareOptions)]
  /\ Throw(p, "Miniflare")
  /\ UNCHANGED <<entry, dateChecks, cfg, outfilePath, mkdirs, mf, requests, disposes,
                 content, wr, fs, before>>

\* a variant that boots the instance with the caller's date and flags
DispatchCallerProfile(p) ==
  /\ pc[p] = "generate"
  /\ reads' = [reads EXCEPT ![p] = @ + 1]
  /\ boots' = [boots EXCEPT ![p] = Append(@,
       [MiniflareOptions EXCEPT
          !.compatibilityDate = Val(cfg[p].date),
          !.compatibilityFlags = compatibilityFlags(cfg[p].flags)])]
  /\ mf' = [mf EXCEPT ![p] = "live"]
  /\ requests' = [requests EXCEPT ![p] =
       Append(@, requestPath(Val(cfg[p].date), compatibilityFlags(cfg[p].flags)))]
  /\ pc' = [pc EXCEPT ![p] = "dispatch"]
  /\ UNCHANGED <<entry, dateChecks, cfg, err, outfilePath, mkdirs, disposes,
                 content, wr, fs, before, after>>

\* the script is read, the instance is created, mf.dispatchFetch(path) is
\* called
Dispatch(p) ==
  /\ pc[p] = "generate"
  /\ reads' = [reads EXCEPT ![p] = @ + 1]
  /\ boots' = [boots EXCEPT ![p] = Append(@, MiniflareOptions)]
  /\ mf' = [mf EXCEPT ![p] = "live"]
  /\ requests' = [requests EXCEPT ![p] =
       Append(@, requestPath(Val(cfg[p].date), compatibilityFlags(cfg[p].flags)))]
  /\ pc' = [pc EXCEPT ![p] = "dispatch"]
  /\ UNCHANGED <<entry, dateChecks, cfg, err, outfilePath, mkdirs, disposes, content, wr, fs,
                 before, after>>

\* a variant that dispatches the request again when dispatchFetch rejects
DispatchFailRetry(p) ==
  /\ pc[p] = "dispatch"
  /\ requests' = [requests EXCEPT ![p] = Append(@, @[1])]
  /\ UNCHANGED <<pc, entry, dateChecks, cfg, err, outfilePath, mkdirs, reads,
                 boots, mf, disposes, content, wr, fs, before, after>>

\* await mf.dispatchFetch(path) rejects
DispatchFail(p) ==
  /\ pc[p] = "dispatch"
  /\ Throw(p, "dispatchFetch")
  /\ UNCHANGED <<entry, dateChecks, cfg, outfilePath, mkdirs, reads, boots, mf, requests, disposes,
                 content, wr, fs, before>>

\* a variant that starts the write when the response arrives, before its
\* body is read
DispatchOkWriteEarly(p) ==
  /\ pc[p] = "dispatch"
  /\ pc' = [pc EXCEPT ![p] = "text"]
  /\ wr' = [wr EXCEPT ![p] =
       [st |-> "pending", path |-> Val(outfilePath[p]), data |-> <<>>, pos |-> 0]]
  /\ UNCHANGED <<entry, dateChecks, cfg, err, outfilePath, mkdirs, reads, boots,
                 mf, requests, disposes, content, fs, before, after>>

\* a variant that disposes the instance when the response arrives, before
\* its body is read
DispatchOkDisposeEarly(p) ==
  /\ pc[p] = "dispatch"
  /\ pc' = [pc EXCEPT ![p] = "text"]
  /\ disposes' = [disposes EXCEPT ![p] = @ + 1]
  /\ mf' = [mf EXCEPT ![p] = "disposing"]
  /\ UNCHANGED <<entry, dateChecks, cfg, err, outfilePath, mkdirs, reads, boots,
                 requests, content, wr, fs, before, after>>

\* await mf.dispatchFetch(path) returns the response; res.text() is called
DispatchOk(p) ==
  /\ pc[p] = "dispatch"
  /\ pc' = [pc EXCEPT ![p] = "text"]
  /\ UNCHANGED <<entry, dateChecks, cfg, err, outfilePath, mkdirs, reads, boots, mf, requests,
                 disposes, content, wr, fs, before, after>>

\* await res.text() rejects
TextFail(p) ==
  /\ pc[p] = "text"
  /\ Throw(p, "text")
  /\ UNCHANGED <<entry, dateChecks, cfg, outfilePath, mkdirs, reads, boots, mf, requests, disposes,
                 content, wr, fs, before>>

\* a variant that awaits the write before it calls mf.dispose
PersistWriteFirst(p, text) ==
  /\ content' = [content EXCEPT ![p] = Some(text)]
  /\ wr' = [wr EXCEPT ![p] =
       [st |-> "pending", path |-> Val(outfilePath[p]), data |-> text, pos |-> 0]]
  /\ UNCHANGED <<disposes, mf>>
  /\ pc' = [pc EXCEPT ![p] = "persist"]

\* a variant that keeps the output path in a variable all invocations share:
\* the write goes to the path of the invocation that was called last
PersistSharedPath(p, text) ==
  /\ content' = [content EXCEPT ![p] = Some(text)]
  /\ wr' = [wr EXCEPT ![p] =
       [st |-> "pending",
        path |-> Val(outfilePath[
          CHOOSE q \in Procs :
            /\ outfilePath[q] # None
            /\ \A r \in Procs : outfilePath[r] # None => r <= q]),
        data |-> text, pos |-> 0]]
  /\ disposes' = [disposes EXCEPT ![p] = @ + 1]
  /\ mf' = [mf EXCEPT ![p] = "disposing"]
  /\ pc' = [pc EXCEPT ![p] = "persist"]

\* await res.text() returns the text; writeFile and mf.dispose are both
\* called, in this order, before Promise.all is awaited
Persist(p, text) ==
  /\ content' = [content EXCEPT ![p] = Some(text)]
  /\ wr' = [wr EXCEPT ![p] =
       [st |-> "pending", path |-> Val(outfilePath[p]), data |-> text, pos |-> 0]]
  /\ disposes' = [disposes EXCEPT ![p] = @ + 1]
  /\ mf' = [mf EXCEPT ![p] = "disposing"]
  /\ pc' = [pc EXCEPT ![p] = "persist"]

TextOk(p) ==
  /\ pc[p] = "text"
  /\ \E text \in Responses : Persist(p, text)
  /\ UNCHANGED <<entry, dateChecks, cfg, err, outfilePath, mkdirs, reads, boots, requests, fs,
                 before, after>>

(***************************************************************************)
(* await Promise.all([writeFile(outfilePath, content, "utf8"),             *)
(*                    mf.dispose()])                                       *)
(*                                                                         *)
(* Promise.all rejects at the first rejection and fulfils once both        *)
(* promises are fulfilled; the operation that is still running when the    *)
(* call has returned runs on.                                              *)
(***************************************************************************)
\* a variant that returns as soon as one of the two has finished (Promise.race)
PromiseRace(p, e, w, m) ==
  IF pc[p] # "persist" THEN UNCHANGED <<pc, err, after>>
  ELSE IF e # ""
    THEN /\ pc' = [pc EXCEPT ![p] = "failed"]
         /\ err' = [err EXCEPT ![p] = e]
         /\ after' = [after EXCEPT ![p] = Some(fs'[OutFile(p)])]
  ELSE IF w = "done" \/ m = "disposed"
    THEN /\ pc' = [pc EXCEPT ![p] = "done"]
         /\ after' = [after EXCEPT ![p] = Some(fs'[OutFile(p)])]
         /\ UNCHANGED err
  ELSE UNCHANGED <<pc, err, after>>

\* a variant that catches the rejection of mf.dispose()
PromiseAllDisposeCaught(p, e, w, m) ==
  IF pc[p] # "persist" THEN UNCHANGED <<pc, err, after>>
  ELSE IF e # "" /\ e # "dispose"
    THEN /\ pc' = [pc EXCEPT ![p] = "failed"]
         /\ err' = [err EXCEPT ![p] = e]
         /\ after' = [after EXCEPT ![p] = Some(fs'[OutFile(p)])]
  ELSE IF w = "done" /\ m \in {"disposed", "disposeFailed"}
    THEN /\ pc' = [pc EXCEPT ![p] = "done"]
         /\ after' = [after EXCEPT ![p] = Some(fs'[OutFile(p)])]
         /\ UNCHANGED err
  ELSE UNCHANGED <<pc, err, after>>

\* the effect of one of the two operations finishing: e is its error ("" for
\* none), w and m are the states of the write and of the instance after it
PromiseAll(p, e, w, m) ==
  IF pc[p] # "persist" THEN UNCHANGED <<pc, err, after>>
  ELSE IF e # ""
    THEN /\ pc' = [pc EXCEPT ![p] = "failed"]
         /\ err' = [err EXCEPT ![p] = e]
         /\ after' = [after EXCEPT ![p] = Some(fs'[OutFile(p)])]
  ELSE IF w = "done" /\ m = "disposed"
    THEN /\ pc' = [pc EXCEPT ![p] = "done"]
         /\ after' = [after EXCEPT ![p] = Some(fs'[OutFile(p)])]
         /\ UNCHANGED err
  ELSE UNCHANGED <<pc, err, after>>

\* writeFile opens the file
WriteOpen(p) ==
  /\ wr[p].st = "pending"
  /\ wr' = [wr EXCEPT ![p].st = "open"]
  /\ fs' = [fs EXCEPT ![FileOf(wr[p].path)] = OpenForWrite(@)]
  /\ PromiseAll(p, "", "open", mf[p])
  /\ UNCHANGED <<entry, dateChecks, cfg, outfilePath, mkdirs, reads, boots, mf, requests, disposes,
                 content, before>>

\* writeFile writes the next chunk of the data
WriteChunk(p) ==
  /\ wr[p].st = "open"
  /\ wr[p].pos < Len(wr[p].data)
  /\ wr' = [wr EXCEPT ![p].pos = @ + 1]
  /\ fs' = [fs EXCEPT ![FileOf(wr[p].path)] =
       WriteAt(@, wr[p].pos, wr[p].data[wr[p].pos + 1])]
  /\ PromiseAll(p, "", "open", mf[p])
  /\ UNCHANGED <<entry, dateChecks, cfg, outfilePath, mkdirs, reads, boots, mf, requests, disposes,
                 content, before>>

\* all the data is written: writeFile closes the file and fulfils
WriteDone(p) ==
  /\ wr[p].st = "open"
  /\ wr[p].pos = Len(wr[p].data)
  /\ wr' = [wr EXCEPT ![p].st = "done"]
  /\ UNCHANGED fs
  /\ PromiseAll(p, "", "done", mf[p])
  /\ UNCHANGED <<entry, dateChecks, cfg, outfilePath, mkdirs, reads, boots, mf, requests, disposes,
                 content, before>>

\* writeFile rejects: the file cannot be opened, or a write fails
WriteFail(p) ==
  /\ wr[p].st \in {"pending", "open"}
  /\ wr' = [wr EXCEPT ![p].st = "failed"]
  /\ UNCHANGED fs
  /\ PromiseAll(p, "writeFile", "failed", mf[p])
  /\ UNCHANGED <<entry, dateChecks, cfg, outfilePath, mkdirs, reads, boots, mf, requests, disposes,
                 content, before>>

\* mf.dispose() fulfils
DisposeOk(p) ==
  /\ mf[p] = "disposing"
  /\ mf' = [mf EXCEPT ![p] = "disposed"]
  /\ UNCHANGED fs
  /\ PromiseAll(p, "", wr[p].st, "disposed")
  /\ UNCHANGED <<entry, dateChecks, cfg, outfilePath, mkdirs, reads, boots, requests, disposes,
                 content, wr, before>>

\* mf.dispose() rejects
DisposeFail(p) ==
  /\ mf[p] = "disposing"
  /\ mf' = [mf EXCEPT ![p] = "disposeFailed"]
  /\ UNCHANGED fs
  /\ PromiseAll(p, "dispose", wr[p].st, "disposeFailed")
  /\ UNCHANGED <<entry, dateChecks, cfg, outfilePath, mkdirs, reads, boots, requests, disposes,
                 content, wr, before>>

(***************************************************************************)
(* Specifications                                                          *)
(***************************************************************************)
Step(p) ==
  \/ EnsureDirectoryFail(p)
  \/ EnsureDirectoryOk(p)
  \/ ReadScriptFail(p)
  \/ BootFail(p)
  \/ Dispatch(p)
  \/ DispatchFail(p)
  \/ DispatchOk(p)
  \/ TextFail(p)
  \/ TextOk(p)
  \/ WriteOpen(p)
  \/ WriteChunk(p)
  \/ WriteDone(p)
  \/ WriteFail(p)
  \/ DisposeOk(p)
  \/ DisposeFail(p)

\* one invocation of generateRuntimeTypes
Next == \E p \in Procs : Call(p) \/ Step(p)

Spec == Init /\ [][Next]_vars

\* a first call that will be repeated
CallFirst(p) ==
  /\ \A q \in Procs : pc[q] = "idle"
  /\ \E c \in RepeatConfigs : Enter(p, c)

\* a second call with the configuration of the first, made once the first
\* has returned and nothing it started is still running
CallAgain(p) ==
  /\ pc[p] = "idle"
  /\ \E q \in Procs \ {p} :
       /\ Returned(q)
       /\ Settled(q)
       /\ Enter(p, cfg[q])

\* two invocations of generateRuntimeTypes in sequence
NextTwice == \E p \in Procs : CallFirst(p) \/ CallAgain(p) \/ Step(p)

SpecTwice == Init /\ [][NextTwice]_vars

\* a variant of generate that checks the date again
CallGenerateValidating(p) ==
  /\ pc[p] = "idle"
  /\ \A q \in Procs : pc[q] = "idle"
  /\ \E path \in OutFiles \ {None}, d \in DirectDates, f \in FlagLists :
       /\ cfg' = [cfg EXCEPT ![p] =
            [date |-> Some(d), flags |-> f, outFile |-> path, rootPath |-> None]]
       /\ outfilePath' = [outfilePath EXCEPT ![p] = path]
       /\ before' = [before EXCEPT ![p] = Some(fs[FileOf(Val(path))])]
       /\ IF d = ""
            THEN /\ pc' = [pc EXCEPT ![p] = "failed"]
                 /\ err' = [err EXCEPT ![p] = DateError]
            ELSE /\ pc' = [pc EXCEPT ![p] = "generate"]
                 /\ UNCHANGED err
  /\ entry' = [entry EXCEPT ![p] = "generate"]
  /\ dateChecks' = [dateChecks EXCEPT ![p] = @ + 1]
  /\ UNCHANGED <<mkdirs, reads, boots, mf, requests, disposes,
                 content, wr, fs, after>>

\* a direct call of generate({outfilePath, compatibilityDate,
\* compatibilityFlags}), made while no other invocation is running: the body
\* begins with the read of the worker script
CallGenerate(p) ==
  /\ pc[p] = "idle"
  /\ \A q \in Procs : pc[q] = "idle"
  /\ \E path \in OutFiles \ {None}, d \in DirectDates, f \in FlagLists :
       /\ cfg' = [cfg EXCEPT ![p] =
            [date |-> Some(d), flags |-> f, outFile |-> path, rootPath |-> None]]
       /\ outfilePath' = [outfilePath EXCEPT ![p] = path]
       /\ before' = [before EXCEPT ![p] = Some(fs[FileOf(Val(path))])]
  /\ entry' = [entry EXCEPT ![p] = "generate"]
  /\ pc' = [pc EXCEPT ![p] = "generate"]
  /\ UNCHANGED <<dateChecks, err, mkdirs, reads, boots, mf, requests, disposes,
                 content, wr, fs, after>>

\* one invocation, of generateRuntimeTypes or of generate itself
NextDirect == \E p \in Procs : Call(p) \/ CallGenerate(p) \/ Step(p)

SpecDirect == Init /\ [][NextDirect]_vars

\* a call of generateRuntimeTypes made whatever the other invocation does
CallConc(p) ==
  /\ pc[p] = "idle"
  /\ \E c \in ConcConfigs : Enter(p, c)

\* two invocations of generateRuntimeTypes that may run at the same time
NextConc == \E p \in Procs : CallConc(p) \/ Step(p)

SpecConc == Init /\ [][NextConc]_vars

\* one invocation whose collaborators all return or fail in the end: a
\* pending await is resumed
CallFair(p) ==
  /\ pc[p] = "idle"
  /\ \A q \in Procs : pc[q] = "idle"
  /\ \E c \in FairConfigs : Enter(p, c)

NextFair == \E p \in Procs : CallFair(p) \/ Step(p)

FairSpec == Init /\ [][NextFair]_vars /\ \A p \in Procs : WF_vars(Step(p))

TypeOK ==
  /\ pc \in [Procs -> {"idle", "mkdir", "generate", "dispatch", "text",
                       "persist", "done", "failed"}]
  /\ cfg \in [Procs -> Configs \cup {NoConfig}]
  /\ \A p \in Procs :
       /\ Len(mkdirs[p]) <= 1 /\ reads[p] <= 1 /\ Len(boots[p]) <= 1
       /\ mf[p] \in {"none", "live", "disposing", "disposed", "disposeFailed"}
       /\ wr[p].st \in {"none", "pending", "open", "done", "failed"}
       /\ wr[p].pos <= Len(wr[p].data)
       /\ entry[p] \in {"", "generateRuntimeTypes", "generate"}
       /\ dateChecks[p] <= 1

(***************************************************************************)
(* Properties                                                              *)
(***************************************************************************)
\* what an invocation has done so far
NoDirectoryCreated(p) == mkdirs[p] = <<>>
NoBoot(p) == reads[p] = 0 /\ boots[p] = <<>> /\ mf[p] = "none"
NoDispatch(p) == requests[p] = <<>> /\ content[p] = None
NoWriteStarted(p) == wr[p].st = "none"

ConfigurationErrors == {DateError, LocationError}

LongFile == [i \in 1..(MaxChunks + 1) |-> "P"]

\* the flags suffix, built flag by flag: every flag is preceded by "+"
RECURSIVE ExpectedSuffix(_)
ExpectedSuffix(f) ==
  IF f = <<>> THEN ""
  ELSE ExpectedSuffix(SubSeq(f, 1, Len(f) - 1)) \o "+" \o f[Len(f)]

ExpectedPath(date, flags) ==
  "http://dummy.com" \o "/" \o Val(date)
    \o ExpectedSuffix(IF flags = None THEN <<>> ELSE Val(flags))

\* C1: every invocation that created a Miniflare instance has called its
\* dispose exactly once by the time it returns, whichever way it returns
C1_DisposedOnEveryExit ==
  \A p \in Procs : (Returned(p) /\ mf[p] # "none") => disposes[p] = 1

\* C2: an invocation whose compatibility_date is missing or empty fails with
\* the configuration error of the date and creates no directory, boots no
\* sandbox, dispatches nothing and writes nothing
C2_MissingDateFailsFirst ==
  \A p \in Procs :
    (pc[p] # "idle" /\ cfg[p].date \in {None, Some("")}) =>
      /\ pc[p] = "failed"
      /\ err[p] = DateError
      /\ NoDirectoryCreated(p) /\ NoBoot(p) /\ NoDispatch(p) /\ NoWriteStarted(p)
      /\ outfilePath[p] = None

C2_Witness ==
  \E p \in Procs :
    /\ cfg[p].date = Some("") /\ cfg[p].outFile # None
    /\ pc[p] = "failed" /\ err[p] = DateError

\* C3: an invocation with neither outFile nor rootPath fails with a
\* configuration error and creates no directory, boots no sandbox, dispatches
\* nothing and writes nothing
C3_NoLocationFailsFirst ==
  \A p \in Procs :
    (pc[p] # "idle" /\ cfg[p].outFile = None /\ cfg[p].rootPath = None) =>
      /\ pc[p] = "failed"
      /\ err[p] \in ConfigurationErrors
      /\ ~ Falsy(cfg[p].date) => err[p] = LocationError
      /\ NoDirectoryCreated(p) /\ NoBoot(p) /\ NoDispatch(p) /\ NoWriteStarted(p)

C3_Witness ==
  \E p \in Procs :
    /\ cfg[p].outFile = None /\ cfg[p].rootPath = None
    /\ cfg[p].date = Some("2024-01-01")
    /\ pc[p] = "failed" /\ err[p] = LocationError

\* C4: the path given to dispatchFetch is the authority, "/", the date
\* verbatim, and then nothing when there is no flag, else every flag in the
\* caller's order, each preceded by "+", with no encoding
C4_RequestPathEncoding ==
  \A p \in Procs :
    requests[p] # <<>> =>
      /\ requests[p] = <<ExpectedPath(cfg[p].date, cfg[p].flags)>>
      /\ (cfg[p].date = Some("2024-01-01") /\ cfg[p].flags \in {None, Some(<<>>)})
           => requests[p][1] = "http://dummy.com/2024-01-01"
      /\ (cfg[p].date = Some("2024-01-01")
            /\ cfg[p].flags = Some(<<"nodejs_compat", "rtti_api">>))
           => requests[p][1] = "http://dummy.com/2024-01-01+nodejs_compat+rtti_api"
      /\ (cfg[p].date = Some("2024-01-01")
            /\ cfg[p].flags = Some(<<"rtti_api", "nodejs_compat">>))
           => requests[p][1] = "http://dummy.com/2024-01-01+rtti_api+nodejs_compat"
      /\ (cfg[p].date = Some("2023-07-24") /\ cfg[p].flags = Some(<<"a+b", "">>))
           => requests[p][1] = "http://dummy.com/2023-07-24+a+b+"

C4_Witness ==
  \E p \in Procs :
    /\ requests[p] = <<"http://dummy.com/2024-01-01+nodejs_compat+rtti_api">>
    /\ cfg[p].flags = Some(<<"nodejs_compat", "rtti_api">>)

\* C5: once an invocation has failed, its output file is absent or holds
\* what it held when the invocation began
C5_FailureLeavesFileIntact ==
  \A p \in Procs :
    (pc[p] = "failed" /\ outfilePath[p] # None) =>
      fs[OutFile(p)] \in {Absent, Val(before[p])}

\* C6: when the response was read and the write has failed, mf.dispose has
\* been called exactly once
C6_DisposedWhenWriteFails ==
  \A p \in Procs :
    wr[p].st = "failed" => (content[p] # None /\ disposes[p] = 1)

C6_Witness ==
  \E p \in Procs :
    /\ wr[p].st = "failed" /\ pc[p] = "failed" /\ err[p] = "writeFile"
    /\ disposes[p] = 1

\* C7: when the boot fails (the script cannot be read or new Miniflare
\* throws), the output file holds what it held before and no write was started
C7_BootFailureLeavesFile ==
  \A p \in Procs :
    err[p] \in {"readFileSync", "Miniflare"} =>
      /\ fs[OutFile(p)] = Val(before[p])
      /\ after[p] = before[p]
      /\ NoWriteStarted(p)

C7_Witness ==
  /\ \E p \in Procs :
       err[p] = "Miniflare" /\ before[p] = Some(LongFile) /\ fs[OutFile(p)] = LongFile
  /\ \E p \in Procs : err[p] \in {"readFileSync", "Miniflare"} /\ pc[p] = "failed"

\* C8: when an invocation has succeeded, its output file holds exactly the
\* response text it read, whatever the file held before, and the one request
\* it dispatched carried the encoding of its date and flags
C8_SuccessWritesResponse ==
  \A p \in Procs :
    pc[p] = "done" =>
      /\ content[p] # None
      /\ after[p] = content[p]
      /\ wr[p].st = "done" /\ wr[p].data = Val(content[p])
      /\ Settled(p) => fs[OutFile(p)] = Val(content[p])
      /\ requests[p] = <<ExpectedPath(cfg[p].date, cfg[p].flags)>>

C8_Witness ==
  \E p \in Procs :
    /\ pc[p] = "done"
    /\ before[p] = Some(LongFile)
    /\ content[p] = Some(<<"A", "A">>)
    /\ fs[OutFile(p)] = <<"A", "A">>

\* C9: when two invocations with the same configuration and the same output
\* file have both succeeded, one after the other, and the sandbox answered
\* the same request with the same text, the file holds after the second what
\* it held after the first
C9_Idempotent ==
  \A p, q \in Procs :
    (/\ p # q
     /\ pc[p] = "done" /\ pc[q] = "done"
     /\ cfg[p] = cfg[q] /\ outfilePath[p] = outfilePath[q]
     /\ requests[p] = requests[q] => content[p] = content[q])
    => /\ after[p] = after[q]
       /\ fs[OutFile(p)] = Val(after[q])

C9_Witness ==
  \E p, q \in Procs :
    /\ p # q
    /\ pc[p] = "done" /\ pc[q] = "done"
    /\ cfg[p] = cfg[q]
    /\ before[p] = Some(LongFile)
    /\ content[p] = Some(<<"A", "A">>) /\ content[q] = content[p]
    /\ before[q] = after[p]
    /\ after[q] = after[p]

\* the segments of the default output file of a root path: those of the
\* directory that contains it, then .wrangler, types, runtime.d.ts
ExpectedDefaultSegs(rootPath) ==
  LET names == Segments(rootPath)
      dir == IF names = <<>> THEN <<>> ELSE SubSeq(names, 1, Len(names) - 1)
      base == IF IsAbsolute(rootPath) THEN <<>> ELSE Segments(Cwd)
  IN NormalizeSegs(<<>>, base \o dir) \o <<".wrangler", "types", "runtime.d.ts">>

\* C10: the output file is outFile verbatim when outFile is given, else
\* ./.wrangler/types/runtime.d.ts resolved against the directory of rootPath;
\* ensureDirectoryExists and writeFile are given this same path
C10_OutputTarget ==
  \A p \in Procs :
    outfilePath[p] # None =>
      LET path == Val(outfilePath[p]) IN
        /\ cfg[p].outFile # None => path = Val(cfg[p].outFile)
        /\ cfg[p].outFile = None =>
             /\ cfg[p].rootPath # None
             /\ IsAbsolute(path)
             /\ Segments(path) = ExpectedDefaultSegs(Val(cfg[p].rootPath))
             /\ Len(path) = 2 * Len(Segments(path))
        /\ (cfg[p].outFile = None
              /\ cfg[p].rootPath = Some(<<"/", "proj", "/", "wrangler.toml">>)) =>
             path = <<"/", "proj", "/", ".wrangler", "/", "types", "/", "runtime.d.ts">>
        /\ (cfg[p].outFile = None /\ cfg[p].rootPath = Some(<<"wrangler.toml">>)) =>
             path = <<"/", "cwd", "/", ".wrangler", "/", "types", "/", "runtime.d.ts">>
        /\ mkdirs[p] = <<path>>
        /\ wr[p].st # "none" => wr[p].path = path

C10_Witness ==
  \E p \in Procs :
    /\ cfg[p].outFile = None
    /\ cfg[p].rootPath =
         Some(<<"/", "proj", "/", "sub", "/", "..", "/", "wrangler.toml">>)
    /\ wr[p].st = "done"
    /\ wr[p].path = <<"/", "proj", "/", ".wrangler", "/", "types", "/", "runtime.d.ts">>
    /\ mkdirs[p] = <<wr[p].path>>

\* C11: when ensureDirectoryExists fails, the invocation fails with that
\* error and reads no script, boots no sandbox, dispatches no request and
\* starts no write
C11_DirectoryFailureAborts ==
  \A p \in Procs :
    /\ pc[p] = "mkdir" => (NoBoot(p) /\ NoDispatch(p) /\ NoWriteStarted(p))
    /\ err[p] = "ensureDirectoryExists" =>
         /\ pc[p] = "failed"
         /\ NoBoot(p) /\ NoDispatch(p) /\ NoWriteStarted(p)
         /\ disposes[p] = 0
         /\ fs[OutFile(p)] = Val(before[p])

C11_Witness ==
  \E p \in Procs :
    /\ pc[p] = "failed" /\ err[p] = "ensureDirectoryExists"
    /\ mkdirs[p] = <<Val(outfilePath[p])>>
    /\ NoBoot(p)

\* C12: the steps of an invocation begin in order, each after the one before
\* it has finished: directory preparation after the validation, the boot
\* after the directory preparation, the dispatch after the boot, the write
\* and the disposal after the whole response body is read
C12_StepsInOrder ==
  \A p \in Procs :
    /\ mkdirs[p] # <<>> =>
         /\ dateChecks[p] = 1
         /\ cfg[p].date \notin {None, Some("")}
         /\ cfg[p].outFile # None \/ cfg[p].rootPath # None
    /\ (reads[p] > 0 \/ boots[p] # <<>>) =>
         /\ mkdirs[p] # <<>>
         /\ pc[p] \notin {"idle", "mkdir"}
         /\ err[p] # "ensureDirectoryExists"
    /\ boots[p] # <<>> => reads[p] = 1
    /\ requests[p] # <<>> => (boots[p] # <<>> /\ mf[p] # "none")
    /\ content[p] # None =>
         (requests[p] # <<>> /\ pc[p] \notin {"generate", "dispatch", "text"})
    /\ (wr[p].st # "none" \/ disposes[p] > 0) =>
         /\ content[p] # None
         /\ wr[p].data = Val(content[p])
         /\ wr[p].st # "none" /\ disposes[p] = 1
    /\ pc[p] = "done" => (wr[p].st = "done" /\ mf[p] = "disposed")

C12_Witness ==
  \E p \in Procs :
    /\ pc[p] = "persist"
    /\ wr[p].st = "open" /\ wr[p].pos = 1 /\ mf[p] = "disposing"
    /\ content[p] = Some(<<"A", "A">>)

\* C13: when an invocation has returned after it started the write and the
\* disposal, and the write has not failed, the write is finished and the
\* disposal is finished (fulfilled or rejected)
C13_ReturnsAfterBoth ==
  \A p \in Procs :
    (Returned(p) /\ wr[p].st \notin {"none", "failed"}) =>
      /\ wr[p].st = "done"
      /\ mf[p] \in {"disposed", "disposeFailed"}

C15_DateCheckedAtEntryOnly ==
  \A p \in Procs :
    /\ entry[p] = "generateRuntimeTypes" => dateChecks[p] = 1
    /\ entry[p] = "generate" =>
         /\ dateChecks[p] = 0
         /\ err[p] \notin ConfigurationErrors
         /\ pc[p] \notin {"idle", "mkdir"} /\ mkdirs[p] = <<>>
         /\ pc[p] = "failed" => reads[p] = 1
         /\ (requests[p] # <<>> /\ cfg[p].date = Some("")
               /\ cfg[p].flags \in {None, Some(<<>>)}) =>
              requests[p] = <<"http://dummy.com/">>

C15_Witness ==
  \E p \in Procs :
    /\ entry[p] = "generate" /\ cfg[p].date = Some("")
    /\ pc[p] = "done" /\ Len(boots[p]) = 1
    /\ requests[p] = <<"http://dummy.com/+experimental">>

\* C16: of two concurrent invocations with different output files, each
\* leaves the file of the other alone, uses and disposes its own instance
\* only, and on success its file holds the response it read
C16_DifferentTargetsIndependent ==
  \A p, q \in Procs :
    (/\ p # q
     /\ outfilePath[p] # None /\ outfilePath[q] # None
     /\ OutFile(p) # OutFile(q))
    => /\ wr[p].st = "none" => fs[OutFile(p)] = Val(before[p])
       /\ wr[p].st # "none" => FileOf(wr[p].path) = OutFile(p)
       /\ pc[p] \in {"dispatch", "text"} => (mf[p] = "live" /\ disposes[p] = 0)
       /\ pc[p] = "done" =>
            /\ fs[OutFile(p)] = Val(content[p])
            /\ after[p] = content[p]
            /\ Len(boots[p]) = 1 /\ disposes[p] = 1 /\ mf[p] = "disposed"

C16_Witness ==
  \E p, q \in Procs :
    /\ p # q /\ pc[p] = "done" /\ pc[q] = "done"
    /\ OutFile(p) # OutFile(q)
    /\ content[p] = Some(<<"A", "A">>) /\ content[q] = Some(<<"B", "B">>)
    /\ fs[OutFile(p)] = <<"A", "A">> /\ fs[OutFile(q)] = <<"B", "B">>

\* C17: new Miniflare is given the same options whatever the caller's date
\* and flags are, which reach the sandbox in the request path only
C17_FixedBootProfile ==
  \A p \in Procs :
    /\ Len(boots[p]) <= 1
    /\ boots[p] # <<>> =>
         boots[p][1] = [compatibilityDate |-> "2024-01-01",
                        compatibilityFlags |-> <<"nodejs_compat", "rtti_api">>,
                        modules |-> TRUE,
                        script |-> "workerd/bazel-bin/types/dist/index.mjs"]
    /\ \A q \in Procs : (boots[p] # <<>> /\ boots[q] # <<>>) => boots[p] = boots[q]
    /\ requests[p] # <<>> =>
         requests[p] = <<ExpectedPath(cfg[p].date, cfg[p].flags)>>

C17_Witness ==
  \E p \in Procs :
    /\ cfg[p].date = Some("2023-07-24") /\ cfg[p].flags = Some(<<"experimental">>)
    /\ Len(boots[p]) = 1
    /\ boots[p][1].compatibilityDate = "2024-01-01"
    /\ boots[p][1].compatibilityFlags = <<"nodejs_compat", "rtti_api">>
    /\ requests[p] = <<"http://dummy.com/2023-07-24+experimental">>

C18_Outcome(p) ==
  /\ pc[p] = "done" =>
       (err[p] = "" /\ wr[p].st = "done" /\ mf[p] = "disposed")
  /\ pc[p] = "failed" =>
       /\ err[p] # ""
       /\ err[p] = "writeFile" => wr[p].st = "failed"
       /\ err[p] = "dispose" => mf[p] = "disposeFailed"
       /\ err[p] \in {"dispatchFetch", "text"} =>
            (Len(requests[p]) = 1 /\ NoWriteStarted(p))
       /\ err[p] \in {"readFileSync", "Miniflare"} => NoDispatch(p)
       /\ err[p] \in ConfigurationErrors \cup {"ensureDirectoryExists"} => NoBoot(p)
  /\ (wr[p].st = "failed" \/ mf[p] = "disposeFailed") => pc[p] = "failed"
  /\ (wr[p].st = "failed" /\ mf[p] # "disposeFailed") => err[p] = "writeFile"
  /\ (mf[p] = "disposeFailed" /\ wr[p].st # "failed") => err[p] = "dispose"

C19_NoUseOutsideLifetime ==
  \A p \in Procs :
    /\ pc[p] \in {"dispatch", "text"} => (mf[p] = "live" /\ disposes[p] = 0)
    /\ requests[p] # <<>> => (Len(boots[p]) = 1 /\ mf[p] # "none")
    /\ disposes[p] <= 1
    /\ disposes[p] > 0 =>
         (content[p] # None /\ pc[p] \notin {"generate", "dispatch", "text"})
    /\ mf[p] \in {"disposing", "disposed", "disposeFailed"} =>
         (disposes[p] = 1 /\ Len(requests[p]) = 1 /\ content[p] # None)

C19_Witness ==
  \E p \in Procs :
    /\ pc[p] = "text" /\ mf[p] = "live" /\ disposes[p] = 0
    /\ Len(requests[p]) = 1 /\ Len(boots[p]) = 1

\* C20: when two concurrent invocations with the same output file have both
\* returned done and their writes are over, the file holds the whole
\* response of one of them
C20_SameTargetOneResponse ==
  \A p, q \in Procs :
    (/\ p # q
     /\ pc[p] = "done" /\ pc[q] = "done"
     /\ Settled(p) /\ Settled(q)
     /\ OutFile(p) = OutFile(q))
    => fs[OutFile(p)] \in {Val(content[p]), Val(content[q])}

====
